---- MODULE Spec2Model ----
(***************************************************************************)
(* The sensor fleet of MA-smart-home: SensorManager (add_sensor,           *)
(* start_all, stop_all), the TemperatureSensor run loop with its           *)
(* cooperative stop flag, and the validated SensorReading.                 *)
(*                                                                         *)
(* Program state: nodes (the SensorNode objects), units (the Thread        *)
(* objects, each with the position of its run() call), the manager's two   *)
(* lists sensors and threads (references into nodes and units) and mgr,    *)
(* the position of the coordinating thread.  tick and obs only observe the *)
(* program: tick[u] is what the latest iteration of unit u has done so     *)
(* far, obs[n] what happened on node n since its last stop().  No guard    *)
(* reads them.                                                             *)
(***************************************************************************)
EXTENDS Integers, Sequences, FiniteSets, TLC

VARIABLES nodes, units, sensors, threads, mgr, tick, obs, call, heap, srv, lg

\* what lives outside the fleet: call, the latest direct call of a
\* constructor or method with its outcome; heap, the dict objects handed
\* out by get_metadata(); srv, the server-side SendReading handler; lg, the
\* logger factory: its configured flag, its lock and the calls in progress
outside == <<call, heap, srv, lg>>

vars == <<nodes, units, sensors, threads, mgr, tick, obs, outside>>

\* ------------------------------------------------------------------ bounds
\* most sensors a manager registers
MaxSensors == 2
\* most Thread objects ever created
MaxUnits == 2
\* sample points taken from random.uniform(18, 30)
NumSamples == 2

MaxDicts == 2

MaxRequests == 2

MaxCallers == 2
\* ------------------------------------------------------- program constants
TempLo == 18
TempHi == 30
DefaultInterval == 2
MinIdLength == 1
\* index.py registers three sensors before start_all()
NumScenarioSensors == 3

\* the observers count none, one, more than one
Bump(c) == IF c < 2 THEN c + 1 ELSE c

\* ------------------------------------------------------------ SensorReading
\* a Literal that also lists the upper-case spelling of a tag
TagsAnyCase ==
    {"temperature", "TEMPERATURE", "humidity", "motion_ir", "position"}

SensorTypeTags == {"temperature", "humidity", "motion_ir", "position"}

\* "degC" stands for the degree-Celsius tag
UnitOfMeasureTags == {"degC", "%", "lux", "boolean", "integer", "float"}

\* the Python values a caller may pass as value: a float, an int, None, NaN,
\* an infinity (v is its sign), a text that spells no number, a text that
\* spells the number v
Float(x) == [kind |-> "float", v |-> x]

PyInt(n) == [kind |-> "int", v |-> n]

None == [kind |-> "none", v |-> 0]

NaN == [kind |-> "nan", v |-> 0]

Inf(sign) == [kind |-> "inf", v |-> sign]

Text == [kind |-> "str", v |-> 0]

NumericText(n) == [kind |-> "numstr", v |-> n]

StrKinds == {"str", "numstr"}

\* a validator without the NaN test
CheckValueWithoutNaN(v) ==
    IF v.kind = "none"
    THEN [ok |-> FALSE, msg |-> "The value cannot be None", v |-> v]
    ELSE IF v.kind \in StrKinds
    THEN [ok |-> FALSE, msg |-> "The value cannot be a string", v |-> v]
    ELSE [ok |-> TRUE, msg |-> "", v |-> v]

\* a validator that returns float(v) instead of v
CheckValueAsFloat(v) ==
    IF v.kind = "none"
    THEN [ok |-> FALSE, msg |-> "The value cannot be None", v |-> v]
    ELSE IF v.kind \in StrKinds
    THEN [ok |-> FALSE, msg |-> "The value cannot be a string", v |-> v]
    ELSE IF v.kind = "nan"
    THEN [ok |-> FALSE, msg |-> "The value cannot be NaN", v |-> v]
    ELSE [ok |-> TRUE, msg |-> "",
          v |-> IF v.kind = "int" THEN Float(v.v) ELSE v]

\* check_value: None, str and a float that is NaN raise ValueError, tested
\* in this order; every other v is returned as it is
check_value(v) ==
    IF v.kind = "none"
    THEN [ok |-> FALSE, msg |-> "The value cannot be None", v |-> v]
    ELSE IF v.kind \in StrKinds
    THEN [ok |-> FALSE, msg |-> "The value cannot be a string", v |-> v]
    ELSE IF v.kind = "nan"
    THEN [ok |-> FALSE, msg |-> "The value cannot be NaN", v |-> v]
    ELSE [ok |-> TRUE, msg |-> "", v |-> v]

\* value: float, as pydantic validates the annotation before check_value
\* runs: None and a text that spells no number are refused, an int and a
\* text that spells a number become that float, a float (NaN and the
\* infinities included) passes as it is
FloatField(v) ==
    IF v.kind \in {"none", "str"}
    THEN [ok |-> FALSE, msg |-> "Input should be a valid number", v |-> v]
    ELSE IF v.kind \in {"int", "numstr"}
    THEN [ok |-> TRUE, msg |-> "", v |-> Float(v.v)]
    ELSE [ok |-> TRUE, msg |-> "", v |-> v]

\* the value field: the annotation first, then the field validator
ValidateValue(v) ==
    IF ~FloatField(v).ok THEN FloatField(v)
    ELSE [ok |-> check_value(FloatField(v).v).ok,
          msg |-> check_value(FloatField(v).v).msg,
          v |-> FloatField(v).v]

\* SensorReading(...) constructs iff every field validates
SensorReadingValid(sensor_id, sensor_type, value, unit) ==
    /\ Len(sensor_id) >= MinIdLength
    /\ sensor_type \in SensorTypeTags
    /\ ValidateValue(value).ok
    /\ unit \in UnitOfMeasureTags

\* SensorReading(sensor_id=.., sensor_type=.., value=.., unit=..): the model
\* object with the validated fields, or a ValidationError and no object
SensorReading(sensor_id, sensor_type, value, unit) ==
    IF SensorReadingValid(sensor_id, sensor_type, value, unit)
    THEN [ok |-> TRUE,
          obj |-> <<[sensor_id |-> sensor_id, sensor_type |-> sensor_type,
                     value |-> ValidateValue(value).v, unit |-> unit]>>]
    ELSE [ok |-> FALSE, obj |-> <<>>]

\* ------------------------------------------------------------- SensorNode
Stub == "SensorServiceStub"

\* a node that opens a channel of its own instead of keeping the stub it is
\* given: GRPCClient(server_address)
NodeWithOwnChannel(sensor_id, stub, interval) ==
    [sensor_id |-> sensor_id, sensor_type |-> "temperature",
     interval |-> interval, running |-> FALSE, stub |-> "GRPCClient"]

\* TemperatureSensor.__init__ -> SensorNode.__init__: running starts False
NewNode(sensor_id, stub, interval) ==
    [sensor_id |-> sensor_id, sensor_type |-> "temperature",
     interval |-> interval, running |-> FALSE, stub |-> stub]

\* random.uniform(18, 30), sampled at NumSamples points with both ends
\* a draw that can exceed the upper end
UniformPastUpper(a, b) ==
    {a + (k * (b + 1 - a)) \div (NumSamples - 1) : k \in 0 .. (NumSamples - 1)}

RandomUniform(a, b) ==
    {a + (k * (b - a)) \div (NumSamples - 1) : k \in 0 .. (NumSamples - 1)}

\* a read_data() that labels every Reading with one fixed id
ReadDataFixedId(node, x) ==
    [sensor_id |-> "sensor", sensor_type |-> node.sensor_type,
     value |-> Float(x), unit |-> "degC",
     valid |-> SensorReadingValid("sensor", node.sensor_type,
                                  Float(x), "degC")]

\* read_data(): the Reading's fields, and whether its construction succeeds
read_data(node, x) ==
    [sensor_id |-> node.sensor_id, sensor_type |-> node.sensor_type,
     value |-> Float(x), unit |-> "degC",
     valid |-> SensorReadingValid(node.sensor_id, node.sensor_type,
                                  Float(x), "degC")]

\* a stop() that flips the flag instead of clearing it
StopToggles(ns, n) == [ns EXCEPT ![n].running = ~@]

\* stop(): self.running = False
stop(ns, n) == [ns EXCEPT ![n].running = FALSE]

\* run(), line 46: self.running = True
run_entry(ns, n) == [ns EXCEPT ![n].running = TRUE]

\* a loop that never reads the flag: while True
LoopForever(node) == TRUE

\* run(), line 47: while self.running
LoopCondition(node) == node.running

\* a loop that swallows the validation error and sends all the same
SendsUnvalidated(valid) == "sending"

\* run(), lines 48-59: a read_data() that raises leaves run(); otherwise
\* the request is built and stub.SendReading(request) is called
AfterReadData(valid) == IF valid THEN "sending" ELSE "raised"

\* a loop without the except clause: the RpcError leaves run()
RpcErrorPropagates(pc) == "raised"

\* run(), lines 66-67: except grpc.RpcError logs and falls through to sleep
AfterRpcError(pc) == "sleep"

\* an except clause that clears a flag shared by the whole class
RpcErrorStopsAll(ns, n) == [k \in DOMAIN ns |-> [ns[k] EXCEPT !.running = FALSE]]

\* the except clause touches no sensor
HandleRpcError(ns, n) == ns

\* ----------------------------------------------------------------- threads
\* a thread created without the daemon flag: threading.Thread(target=sensor.run)
NonDaemonThread(n, daemon) ==
    [target |-> n, daemon |-> FALSE, pc |-> "entry", read |-> <<>>]

\* threading.Thread(target=sensor.run, daemon=...) once started: run() is
\* about to execute its first statement
NewThread(n, daemon) ==
    [target |-> n, daemon |-> daemon, pc |-> "entry", read |-> <<>>]

Alive(t) == t.pc \notin {"done", "raised"}

InLoop(t) == t.pc \in {"check", "read", "sending", "sleep"}

\* a join that does not wait: join(timeout=0)
JoinWithoutWaiting(t) == TRUE

\* thread.join() returns once the thread has ended
Joinable(t) == ~Alive(t)

NoLog == [level |-> "", message |-> ""]

NoTick == [reads |-> 0, valid |-> FALSE, sends |-> 0, infos |-> 0,
           errors |-> 0, sleeps |-> 0, log |-> NoLog, slept |-> 0]

\* the message of the acknowledgement the stub returns
AckMessage == "Reading received"

\* a request that carries a zero instead of the value read
RequestWithoutValue(node, r) ==
    [sensor_id |-> node.sensor_id, sensor_type |-> node.sensor_type,
     value |-> Float(0)]

\* lines 50-56: the request built from the node's id, its type tag and the
\* value of the Reading just read
BuildRequest(node, r) ==
    [sensor_id |-> node.sensor_id, sensor_type |-> node.sensor_type,
     value |-> r.value]

NoObs == [stops |-> 0, loops |-> 0, reentered |-> FALSE, sends |-> 0]

UnitsOf(n) == {u \in DOMAIN units : units[u].target = n}

\* what stop() on node n leaves in the observer
ObsAtStop(n) ==
    [stops |-> Bump(obs[n].stops),
     loops |-> LET k == Cardinality({u \in UnitsOf(n) : InLoop(units[u])})
               IN IF k < 2 THEN k ELSE 2,
     reentered |-> FALSE, sends |-> 0]

\* ------------------------------------------------------ the run() loop
\* line 46
RunEntry(u) ==
    /\ u \in DOMAIN units
    /\ units[u].pc = "entry"
    /\ nodes' = run_entry(nodes, units[u].target)
    /\ units' = [units EXCEPT ![u].pc = "check"]
    /\ obs' = [obs EXCEPT ![units[u].target].reentered = TRUE]
    /\ UNCHANGED <<sensors, threads, mgr, tick, outside>>

\* line 47: the flag is read; a new iteration starts or run() returns
LoopCheck(u) ==
    /\ u \in DOMAIN units
    /\ units[u].pc = "check"
    /\ IF LoopCondition(nodes[units[u].target])
       THEN /\ units' = [units EXCEPT ![u].pc = "read"]
            /\ tick' = [tick EXCEPT ![u] = NoTick]
       ELSE /\ units' = [units EXCEPT ![u].pc = "done"]
            /\ UNCHANGED tick
    /\ UNCHANGED <<nodes, sensors, threads, mgr, obs, outside>>

\* a send serialised over the shared stub: the call of SendReading waits
\* until no other thread is in it
ReadDataUnderLock(u) ==
    /\ \A v \in DOMAIN units \ {u} : units[v].pc # "sending"
    /\ u \in DOMAIN units
    /\ units[u].pc = "read"
    /\ \E x \in RandomUniform(TempLo, TempHi) :
         LET r == read_data(nodes[units[u].target], x)
             sent == AfterReadData(r.valid) = "sending"
         IN
           /\ units' = [units EXCEPT
                          ![u].pc = AfterReadData(r.valid),
                          ![u].read = IF r.valid
                                      THEN <<BuildRequest(nodes[units[u].target], r)>>
                                      ELSE <<>>]
           /\ tick' = [tick EXCEPT ![u].reads = Bump(@), ![u].valid = r.valid,
                                   ![u].sends = IF sent THEN Bump(@) ELSE @]
           /\ obs' = [obs EXCEPT ![units[u].target].sends =
                        IF sent /\ obs[units[u].target].stops > 0
                        THEN Bump(@) ELSE @]
    /\ UNCHANGED <<nodes, sensors, threads, mgr, outside>>

\* lines 48-59: read_data(), the request, and the call of
\* stub.SendReading(request) begins
ReadData(u) ==
    /\ u \in DOMAIN units
    /\ units[u].pc = "read"
    /\ \E x \in RandomUniform(TempLo, TempHi) :
         LET r == read_data(nodes[units[u].target], x)
             sent == AfterReadData(r.valid) = "sending"
         IN
           /\ units' = [units EXCEPT
                          ![u].pc = AfterReadData(r.valid),
                          ![u].read = IF r.valid
                                      THEN <<BuildRequest(nodes[units[u].target], r)>>
                                      ELSE <<>>]
           /\ tick' = [tick EXCEPT ![u].reads = Bump(@), ![u].valid = r.valid,
                                   ![u].sends = IF sent THEN Bump(@) ELSE @]
           /\ obs' = [obs EXCEPT ![units[u].target].sends =
                        IF sent /\ obs[units[u].target].stops > 0
                        THEN Bump(@) ELSE @]
    /\ UNCHANGED <<nodes, sensors, threads, mgr, outside>>

\* lines 59-65: the call returns an acknowledgement; one info line
SendOk(u) ==
    /\ u \in DOMAIN units
    /\ units[u].pc = "sending"
    /\ units' = [units EXCEPT ![u].pc = "sleep", ![u].read = <<>>]
    /\ tick' = [tick EXCEPT ![u].infos = Bump(@),
                            ![u].log = [level |-> "info", message |-> AckMessage]]
    /\ UNCHANGED <<nodes, sensors, threads, mgr, obs, outside>>

\* lines 59, 66-67: the call raises grpc.RpcError; one error line
SendFail(u) ==
    /\ u \in DOMAIN units
    /\ units[u].pc = "sending"
    /\ nodes' = HandleRpcError(nodes, units[u].target)
    /\ units' = [units EXCEPT ![u].pc = AfterRpcError(units[u].pc),
                              ![u].read = <<>>]
    /\ tick' = [tick EXCEPT ![u].errors = Bump(@),
                            ![u].log = [level |-> "error", message |-> "details"]]
    /\ UNCHANGED <<sensors, threads, mgr, obs, outside>>

\* line 69: time.sleep(self.interval) returns
Sleep(u) ==
    /\ u \in DOMAIN units
    /\ units[u].pc = "sleep"
    /\ units' = [units EXCEPT ![u].pc = "check"]
    /\ tick' = [tick EXCEPT ![u].sleeps = Bump(@),
                            ![u].slept = nodes[units[u].target].interval]
    /\ UNCHANGED <<nodes, sensors, threads, mgr, obs, outside>>

UnitStep(u) ==
    \/ RunEntry(u)
    \/ LoopCheck(u)
    \/ ReadData(u)
    \/ SendOk(u)
    \/ SendFail(u)
    \/ Sleep(u)

\* ---------------------------------------------------------- SensorManager
\* the outcome of the manager's latest call, with the line it logged last
NoCall == [op |-> "none", raised |-> "none", line |-> ""]

Returned(op) == [op |-> op, raised |-> "none", line |-> ""]

Raised(op, exc) == [op |-> op, raised |-> exc, line |-> ""]

\* a start_all/stop_all that returns early on an empty fleet:
\* if not self.sensors: return
SilentOnEmpty(op, ss) ==
    IF ss = <<>> THEN ""
    ELSE IF op = "start_all" THEN "All sensors have been started."
    ELSE "All sensors have been stopped."

\* lines 60 and 68: the completion line, logged whatever the fleet holds
CompletionLine(op, ss) ==
    IF op = "start_all" THEN "All sensors have been started."
    ELSE "All sensors have been stopped."

\* the latest call returned after logging this line
Logged(op, line) == [Returned(op) EXCEPT !.line = line]

Idle == mgr.pc = "idle"

\* SENSOR_TYPE_MAPPING: SensorType value -> constructor
SENSOR_TYPE_MAPPING == [v \in {"temperature"} |-> "TemperatureSensor"]

\* the arguments add_sensor is called with: two members of SensorType and a
\* raw string
SensorTypeArgs ==
    {[enum |-> TRUE, value |-> "temperature"],
     [enum |-> TRUE, value |-> "humidity"],
     [enum |-> FALSE, value |-> "not_enum"]}

TEMPERATURE == [enum |-> TRUE, value |-> "temperature"]

Intervals == {DefaultInterval}

\* an id counted from zero
IdFromLength(ss) == "sensor_" \o ToString(Len(ss))

\* f"sensor_{len(self.sensors) + 1}"
NextSensorId(ss) == "sensor_" \o ToString(Len(ss) + 1)

\* a lookup that falls back to the temperature constructor:
\* SENSOR_TYPE_MAPPING.get(getattr(t, "value", t), TemperatureSensor)
LookupWithDefault(t) == [raised |-> "none", ctor |-> "TemperatureSensor"]

\* line 45, SENSOR_TYPE_MAPPING[sensor_type.value]: sensor_type.value raises
\* AttributeError on a value that is no enumeration member (a str has no
\* attribute value), the subscript raises KeyError on an unmapped member
Lookup(t) ==
    IF ~t.enum THEN [raised |-> "AttributeError", ctor |-> "none"]
    ELSE IF t.value \notin DOMAIN SENSOR_TYPE_MAPPING
    THEN [raised |-> "KeyError", ctor |-> "none"]
    ELSE [raised |-> "none", ctor |-> SENSOR_TYPE_MAPPING[t.value]]

\* a registration at the head of the list: self.sensors.insert(0, sensor)
RegisterFirst(ss, n) == <<n>> \o ss

\* line 52: self.sensors.append(sensor)
RegisterSensor(ss, n) == Append(ss, n)

\* add_sensor: a failed lookup raises before anything is built; otherwise the
\* new node is constructed and appended
AddSensor(t, interval) ==
    /\ Idle
    /\ IF Lookup(t).raised # "none"
       THEN /\ mgr' = [mgr EXCEPT !.last = Raised("add_sensor", Lookup(t).raised)]
            /\ UNCHANGED <<nodes, sensors, obs>>
       ELSE /\ nodes' = Append(nodes, NewNode(NextSensorId(sensors), mgr.stub, interval))
            /\ sensors' = RegisterSensor(sensors, Len(nodes) + 1)
            /\ obs' = Append(obs, NoObs)
            /\ mgr' = [mgr EXCEPT !.last =
                         Logged("add_sensor", "Adding sensor: " \o NextSensorId(sensors))]
    /\ UNCHANGED <<units, threads, tick, outside>>

\* start_all is entered
StartAllCall ==
    /\ Idle
    /\ mgr' = [mgr EXCEPT !.pc = "start", !.i = 1]
    /\ UNCHANGED <<nodes, units, sensors, threads, tick, obs, outside>>

\* lines 56-59: one turn of the loop creates, records and starts a thread
StartAllStep ==
    /\ mgr.pc = "start"
    /\ mgr.i <= Len(sensors)
    /\ units' = Append(units, NewThread(sensors[mgr.i], TRUE))
    /\ threads' = Append(threads, Len(units) + 1)
    /\ tick' = Append(tick, NoTick)
    /\ mgr' = [mgr EXCEPT !.i = @ + 1]
    /\ UNCHANGED <<nodes, sensors, obs, outside>>

\* line 60: the loop is over, the completion line is logged
StartAllReturn ==
    /\ mgr.pc = "start"
    /\ mgr.i > Len(sensors)
    /\ mgr' = [mgr EXCEPT !.pc = "idle", !.i = 0, !.last = Logged("start_all", CompletionLine("start_all", sensors))]
    /\ UNCHANGED <<nodes, units, sensors, threads, tick, obs, outside>>

\* a loop over the sensors that is left after its first turn
AfterFirstSignal(k) ==
    IF k >= 1 \/ k >= Len(sensors) THEN [pc |-> "join", i |-> 1]
    ELSE [pc |-> "stop", i |-> k + 1]

\* where stop_all stands once k sensors are signalled: the join loop begins
\* only after the last stop()
AfterSignal(k) ==
    IF k >= Len(sensors) THEN [pc |-> "join", i |-> 1]
    ELSE [pc |-> "stop", i |-> k + 1]

\* stop_all is entered
StopAllCall ==
    /\ Idle
    /\ mgr' = [mgr EXCEPT !.pc = AfterSignal(0).pc, !.i = AfterSignal(0).i]
    /\ UNCHANGED <<nodes, units, sensors, threads, tick, obs, outside>>

\* lines 64-65: sensor.stop()
StopAllSignal ==
    /\ mgr.pc = "stop"
    /\ nodes' = stop(nodes, sensors[mgr.i])
    /\ obs' = [obs EXCEPT ![sensors[mgr.i]] = ObsAtStop(sensors[mgr.i])]
    /\ mgr' = [mgr EXCEPT !.pc = AfterSignal(mgr.i).pc, !.i = AfterSignal(mgr.i).i]
    /\ UNCHANGED <<units, sensors, threads, tick, outside>>

\* lines 66-67: thread.join() returns
StopAllJoin ==
    /\ mgr.pc = "join"
    /\ mgr.i <= Len(threads)
    /\ Joinable(units[threads[mgr.i]])
    /\ mgr' = [mgr EXCEPT !.i = @ + 1]
    /\ UNCHANGED <<nodes, units, sensors, threads, tick, obs, outside>>

\* a stop_all that ends by raising instead of logging its completion line
StopAllRaises ==
    /\ mgr.pc = "join"
    /\ mgr.i > Len(threads)
    /\ mgr' = [mgr EXCEPT !.pc = "idle", !.i = 0, !.last = Raised("stop_all", "RuntimeError")]
    /\ UNCHANGED <<nodes, units, sensors, threads, tick, obs, outside>>

\* line 68: every thread is joined, the completion line is logged
StopAllReturn ==
    /\ mgr.pc = "join"
    /\ mgr.i > Len(threads)
    /\ mgr' = [mgr EXCEPT !.pc = "idle", !.i = 0, !.last = Logged("stop_all", CompletionLine("stop_all", sensors))]
    /\ UNCHANGED <<nodes, units, sensors, threads, tick, obs, outside>>

\* no direct call made, no dict handed out, the handler not invoked
NoDirectCall == [op |-> "none"]

SrvIdle == <<>>

\* logger/factory.py as imported: _configured = False, _lock free
Unconfigured ==
    [configured |-> FALSE, lock |-> 0, loads |-> 0, applies |-> 0,
     callers |-> <<>>]

OutsideInit ==
    /\ call = NoDirectCall
    /\ heap = <<>>
    /\ srv = SrvIdle
    /\ lg = Unconfigured

\* ------------------------------------------------- the manager, any calls
\* SensorManager.__init__: both lists empty
Init ==
    /\ nodes = <<>>
    /\ units = <<>>
    /\ sensors = <<>>
    /\ threads = <<>>
    /\ mgr = [pc |-> "idle", i |-> 0, last |-> NoCall, stub |-> Stub]
    /\ tick = <<>>
    /\ obs = <<>>
    /\ OutsideInit

Next ==
    \/ \E t \in SensorTypeArgs, interval \in Intervals :
         Len(sensors) < MaxSensors /\ AddSensor(t, interval)
    \/ Len(units) + Len(sensors) <= MaxUnits /\ StartAllCall
    \/ StartAllStep
    \/ StartAllReturn
    \/ StopAllCall
    \/ StopAllSignal
    \/ StopAllJoin
    \/ StopAllReturn
    \/ \E u \in DOMAIN units : UnitStep(u)

Spec == Init /\ [][Next]_vars

\* --------------------------------- index.py: three sensors, start, stop
ScenarioNext ==
    \/ /\ Len(sensors) < NumScenarioSensors
       /\ mgr.last.op \in {"none", "add_sensor"}
       /\ AddSensor(TEMPERATURE, Len(sensors) + 1)
    \/ /\ Len(sensors) = NumScenarioSensors
       /\ mgr.last.op = "add_sensor"
       /\ StartAllCall
    \/ StartAllStep
    \/ StartAllReturn
    \/ mgr.last.op = "start_all" /\ StopAllCall
    \/ StopAllSignal
    \/ StopAllJoin
    \/ StopAllReturn
    \/ \E u \in DOMAIN units : UnitStep(u)

ScenarioSpec == Init /\ [][ScenarioNext]_vars

\* fair scheduling: the coordinating thread and every started thread keep
\* taking steps, so every send and every sleep returns
ScenarioFair ==
    /\ ScenarioSpec
    /\ WF_vars(ScenarioNext /\ mgr' # mgr)
    /\ \A u \in 1 .. NumScenarioSensors : WF_vars(UnitStep(u))

\* the same scheduling, except that the send of the first sensor's thread
\* need not return: stub.SendReading(request) is called without a timeout
HungFair ==
    /\ ScenarioSpec
    /\ WF_vars(ScenarioNext /\ mgr' # mgr)
    /\ WF_vars(UnitStep(1) /\ units[1].pc # "sending")
    /\ \A u \in 2 .. NumScenarioSensors : WF_vars(UnitStep(u))

\* ------------- a fleet in which one sensor's read_data() cannot validate
\* a caller appends a node it built itself to manager.sensors, the way
\* test_stop_all does
AppendSensor(id) ==
    /\ Idle
    /\ nodes' = Append(nodes, NewNode(id, Stub, DefaultInterval))
    /\ sensors' = Append(sensors, Len(nodes) + 1)
    /\ obs' = Append(obs, NoObs)
    /\ UNCHANGED <<units, threads, mgr, tick, outside>>

\* a node with an empty id, then sensor_2 through add_sensor, one start_all()
\* and one stop_all()
CrashNext ==
    \/ sensors = <<>> /\ AppendSensor("")
    \/ Len(sensors) = 1 /\ AddSensor(TEMPERATURE, DefaultInterval)
    \/ Len(sensors) = 2 /\ threads = <<>> /\ StartAllCall
    \/ StartAllStep
    \/ StartAllReturn
    \/ mgr.last.op = "start_all" /\ StopAllCall
    \/ StopAllSignal
    \/ StopAllJoin
    \/ StopAllReturn
    \/ \E u \in DOMAIN units : UnitStep(u)

CrashSpec == Init /\ [][CrashNext]_vars

\* fair scheduling of the coordinating thread and of both sensor threads
CrashFair ==
    /\ CrashSpec
    /\ WF_vars(CrashNext /\ (mgr' # mgr \/ sensors' # sensors))
    /\ \A u \in 1 .. 2 : WF_vars(UnitStep(u))

\* --------------------------- one node, driven directly by its callers
NodeIds == {"", "t-1"}

NodeInit ==
    /\ \E id \in NodeIds : nodes = <<NewNode(id, Stub, DefaultInterval)>>
    /\ units = <<>>
    /\ sensors = <<>>
    /\ threads = <<>>
    /\ mgr = [pc |-> "idle", i |-> 0, last |-> NoCall, stub |-> Stub]
    /\ tick = <<>>
    /\ obs = <<NoObs>>
    /\ OutsideInit

\* a caller runs node.run() on a thread of its own
CallRun(n) ==
    /\ Len(units) < MaxUnits
    /\ units' = Append(units, NewThread(n, FALSE))
    /\ tick' = Append(tick, NoTick)
    /\ UNCHANGED <<nodes, sensors, threads, mgr, obs, outside>>

\* a caller calls node.stop()
CallStop(n) ==
    /\ nodes' = stop(nodes, n)
    /\ obs' = [obs EXCEPT ![n] = ObsAtStop(n)]
    /\ UNCHANGED <<units, sensors, threads, mgr, tick, outside>>

NodeNext ==
    \/ \E n \in DOMAIN nodes : CallRun(n)
    \/ \E n \in DOMAIN nodes : CallStop(n)
    \/ \E u \in DOMAIN units : UnitStep(u)

NodeSpec == NodeInit /\ [][NodeNext]_vars

\* ------------- a caller that runs start_all() once, on a fleet with sensors
OnceNext ==
    \/ \E t \in SensorTypeArgs :
         Len(sensors) < MaxSensors /\ AddSensor(t, DefaultInterval)
    \/ threads = <<>> /\ sensors # <<>> /\ StartAllCall
    \/ StartAllStep
    \/ StartAllReturn
    \/ StopAllCall
    \/ StopAllSignal
    \/ StopAllJoin
    \/ StopAllReturn
    \/ \E u \in DOMAIN units : UnitStep(u)

OnceSpec == Init /\ [][OnceNext]_vars

\* ----------------- constructors and methods called directly by a caller
\* None passed where a tag is expected
NullTag == "None"

IdInputs == {"", "t-1"}

TypeInputs == SensorTypeTags \cup {"TEMPERATURE", "Temperature", "", NullTag}

UnitInputs == UnitOfMeasureTags \cup {"celsius", "C", "", NullTag}

ValueInputs ==
    {None, Text, NumericText(25), NaN, Inf(1), Inf(-1), PyInt(0), PyInt(42),
     Float(0), Float(-40), Float(25)}

\* a caller constructs a SensorReading
Construct(sensor_id, sensor_type, value, unit) ==
    /\ call' = [op |-> "SensorReading",
                args |-> [sensor_id |-> sensor_id, sensor_type |-> sensor_type,
                          value |-> value, unit |-> unit],
                result |-> SensorReading(sensor_id, sensor_type, value, unit)]
    /\ UNCHANGED <<nodes, units, sensors, threads, mgr, tick, obs, heap, srv, lg>>

\* what a call of read_data() gives its caller: the Reading, or the
\* ValidationError of its construction
ReadDataResult(r) ==
    IF r.valid
    THEN [ok |-> TRUE,
          obj |-> <<[sensor_id |-> r.sensor_id, sensor_type |-> r.sensor_type,
                     value |-> r.value, unit |-> r.unit]>>]
    ELSE [ok |-> FALSE, obj |-> <<>>]

\* a caller calls node.read_data()
CallReadData(n) ==
    /\ \E x \in RandomUniform(TempLo, TempHi) :
         call' = [op |-> "read_data", node |-> n,
                  result |-> ReadDataResult(read_data(nodes[n], x))]
    /\ UNCHANGED <<nodes, units, sensors, threads, mgr, tick, obs, heap, srv, lg>>

\* a caller calls the validator itself: SensorReading.check_value(value)
CallCheckValue(value) ==
    /\ call' = [op |-> "check_value", args |-> [value |-> value],
                result |-> check_value(value)]
    /\ UNCHANGED <<nodes, units, sensors, threads, mgr, tick, obs, heap, srv, lg>>

\* a SensorNode whose run and stop are no longer abstract
AbstractDataOnly == {"read_data", "calibrate"}

\* the methods SensorNode declares with @abstractmethod
AbstractMethods == {"read_data", "calibrate", "run", "stop"}

\* the methods SensorNode defines with a body of their own
ConcreteMethods == {"get_metadata"}

\* SensorNode itself, and its subclasses by the methods they define
SensorNodeClass == [name |-> "SensorNode", defines |-> {}]

Classes ==
    {SensorNodeClass} \cup
    {[name |-> "Subclass", defines |-> d] :
        d \in SUBSET (AbstractMethods \cup ConcreteMethods)}

\* cls.__abstractmethods__: the abstract names the class leaves undefined
StillAbstract(cls) == AbstractMethods \ cls.defines

\* where the attribute lookup of method m on an instance of cls ends
Resolve(cls, m) ==
    IF m \in cls.defines THEN cls.name
    ELSE IF m \in AbstractMethods \cup ConcreteMethods THEN "SensorNode"
    ELSE "AttributeError"

\* cls(...): ABC refuses a class that has abstract methods left
Instantiate(cls) ==
    IF StillAbstract(cls) = {}
    THEN [ok |-> TRUE, exc |-> "", missing |-> {},
          get_metadata |-> Resolve(cls, "get_metadata")]
    ELSE [ok |-> FALSE, exc |-> "TypeError", missing |-> StillAbstract(cls),
          get_metadata |-> ""]

\* a caller instantiates SensorNode or one of its subclasses
CallInstantiate(cls) ==
    /\ call' = [op |-> "instantiate", cls |-> cls, result |-> Instantiate(cls)]
    /\ UNCHANGED <<nodes, units, sensors, threads, mgr, tick, obs, heap, srv, lg>>

ApiNext ==
    \/ \E sensor_id \in IdInputs, sensor_type \in TypeInputs,
          value \in ValueInputs, unit \in UnitInputs :
            Construct(sensor_id, sensor_type, value, unit)
    \/ \E value \in ValueInputs : CallCheckValue(value)
    \/ \E cls \in Classes : CallInstantiate(cls)

ApiSpec == NodeInit /\ [][ApiNext]_vars

\* get_metadata(): a dict with the keys id and type
get_metadata(node) ==
    [k \in {"id", "type"} |->
        IF k = "id" THEN node.sensor_id ELSE node.sensor_type]

\* a get_metadata() that hands out the dict of the first call again
CallGetMetadataCached(n) ==
    /\ Len(heap) < MaxDicts
    /\ heap' = IF heap = <<>> THEN <<get_metadata(nodes[n])>> ELSE heap
    /\ call' = [op |-> "get_metadata", node |-> n, result |-> 1]
    /\ UNCHANGED <<nodes, units, sensors, threads, mgr, tick, obs, srv, lg>>

\* a caller calls node.get_metadata(): the dict display allocates a new
\* dict, and the caller receives the reference to it
CallGetMetadata(n) ==
    /\ Len(heap) < MaxDicts
    /\ heap' = Append(heap, get_metadata(nodes[n]))
    /\ call' = [op |-> "get_metadata", node |-> n, result |-> Len(heap) + 1]
    /\ UNCHANGED <<nodes, units, sensors, threads, mgr, tick, obs, srv, lg>>

ExtraKeys == {"extra", "note"}

\* the caller adds a key to a dict it was given: metadata[key] = "value"
SetItem(ref, key) ==
    /\ key \notin DOMAIN heap[ref]
    /\ heap' = [heap EXCEPT ![ref] = (key :> "value") @@ @]
    /\ UNCHANGED <<nodes, units, sensors, threads, mgr, tick, obs, call, srv, lg>>

NodeApiNext ==
    \/ \E n \in DOMAIN nodes : CallReadData(n)
    \/ \E n \in DOMAIN nodes : CallGetMetadata(n)
    \/ \E ref \in DOMAIN heap, key \in ExtraKeys : SetItem(ref, key)

NodeApiSpec == NodeInit /\ [][NodeApiNext]_vars

\* ------------------------- GRPCSensorService: the server-side handler
\* srv holds one record per invocation of SendReading: the reading of its
\* request, the arguments on_receive was called with, the response returned
\* and the exception that left the handler
ReadingInputs == {"", "reading"}

NewHandler(reading) ==
    [reading |-> reading, pc |-> "entry", received |-> <<>>,
     reply |-> <<>>, exc |-> <<>>]

\* the server dispatches a request to SendReading(request, context)
SrvReceive(reading) ==
    /\ Len(srv) < MaxRequests
    /\ srv' = Append(srv, NewHandler(reading))
    /\ UNCHANGED <<nodes, units, sensors, threads, mgr, tick, obs, call, heap, lg>>

\* a handler that goes on to its reply without calling on_receive
ReplyWithoutCallback(h) ==
    /\ srv[h].pc = "entry"
    /\ srv' = [srv EXCEPT ![h].pc = "reply"]
    /\ UNCHANGED <<nodes, units, sensors, threads, mgr, tick, obs, call, heap, lg>>

\* line 17: self.on_receive(request.reading) is called and awaited
SrvCallCallback(h) ==
    /\ srv[h].pc = "entry"
    /\ srv' = [srv EXCEPT ![h].pc = "await",
                          ![h].received = Append(@, srv[h].reading)]
    /\ UNCHANGED <<nodes, units, sensors, threads, mgr, tick, obs, call, heap, lg>>

\* the awaited callback returns
CallbackReturn(h) ==
    /\ srv[h].pc = "await"
    /\ srv' = [srv EXCEPT ![h].pc = "reply"]
    /\ UNCHANGED <<nodes, units, sensors, threads, mgr, tick, obs, call, heap, lg>>

\* the awaited callback raises: nothing in SendReading catches it
CallbackRaise(h) ==
    /\ srv[h].pc = "await"
    /\ srv' = [srv EXCEPT ![h].pc = "raised", ![h].exc = <<"ValueError">>]
    /\ UNCHANGED <<nodes, units, sensors, threads, mgr, tick, obs, call, heap, lg>>

\* line 18: return SensorResponse(success=True, message="Reading received")
SrvReply(h) ==
    /\ srv[h].pc = "reply"
    /\ srv' = [srv EXCEPT ![h].pc = "done",
                          ![h].reply = <<[success |-> TRUE,
                                          message |-> "Reading received"]>>]
    /\ UNCHANGED <<nodes, units, sensors, threads, mgr, tick, obs, call, heap, lg>>

SrvNext ==
    \/ \E reading \in ReadingInputs : SrvReceive(reading)
    \/ \E h \in DOMAIN srv : SrvCallCallback(h)
    \/ \E h \in DOMAIN srv : CallbackReturn(h)
    \/ \E h \in DOMAIN srv : CallbackRaise(h)
    \/ \E h \in DOMAIN srv : SrvReply(h)

SrvSpec == Init /\ [][SrvNext]_vars

\* ------------------------------------------ logger/factory.py: Configurator
\* lg.callers holds one record per call of get_logger or init_logging, each
\* on a thread of its own; lg.loads and lg.applies count the calls of
\* load_config and logging.config.dictConfig, saturating; found is the
\* value of _configured the call read at line 39, loaded and applied what
\* the call itself has done
NewCaller(op, allow, env) ==
    [op |-> op, allow |-> allow, env |-> env,
     pc |-> IF op = "get_logger" THEN "check" ELSE "acquire",
     found |-> FALSE, loaded |-> 0, applied |-> 0, exc |-> ""]

\* a get_logger that calls init_logging() with its defaults
GetLoggerReconfigures ==
    /\ Len(lg.callers) < MaxCallers
    /\ lg' = [lg EXCEPT !.callers = Append(@, NewCaller("get_logger", TRUE, TRUE))]
    /\ UNCHANGED <<nodes, units, sensors, threads, mgr, tick, obs, call, heap, srv>>

\* a thread calls get_logger(name); line 56 passes allow_reconfigure=False
CallGetLogger ==
    /\ Len(lg.callers) < MaxCallers
    /\ lg' = [lg EXCEPT !.callers = Append(@, NewCaller("get_logger", FALSE, TRUE))]
    /\ UNCHANGED <<nodes, units, sensors, threads, mgr, tick, obs, call, heap, srv>>

\* a thread calls init_logging(allow_reconfigure=.., apply_env_overrides=..)
CallInitLogging(allow, env) ==
    /\ Len(lg.callers) < MaxCallers
    /\ lg' = [lg EXCEPT !.callers = Append(@, NewCaller("init_logging", allow, env))]
    /\ UNCHANGED <<nodes, units, sensors, threads, mgr, tick, obs, call, heap, srv>>

\* where a call stands when init_logging has returned to it
AfterInit(c) == IF c.op = "get_logger" THEN "return" ELSE "done"

\* line 54: _configured is read without the lock
GetLoggerCheck(c) ==
    /\ lg.callers[c].pc = "check"
    /\ lg' = [lg EXCEPT !.callers[c].pc =
                 IF lg.configured THEN "return" ELSE "acquire"]
    /\ UNCHANGED <<nodes, units, sensors, threads, mgr, tick, obs, call, heap, srv>>

\* line 38: with _lock, entered once the lock is free
Acquire(c) ==
    /\ lg.callers[c].pc = "acquire"
    /\ lg.lock = 0
    /\ lg' = [lg EXCEPT !.lock = c, !.callers[c].pc = "guard"]
    /\ UNCHANGED <<nodes, units, sensors, threads, mgr, tick, obs, call, heap, srv>>

\* a guard that reconfigures whatever allow_reconfigure says
GuardAlwaysLoads(c) ==
    /\ lg.callers[c].pc = "guard"
    /\ lg' = [lg EXCEPT !.callers[c].found = lg.configured,
                        !.callers[c].pc = "load"]
    /\ UNCHANGED <<nodes, units, sensors, threads, mgr, tick, obs, call, heap, srv>>

\* lines 39-40: configured and not allowed to reconfigure: return, which
\* leaves the with block and releases the lock
Guard(c) ==
    /\ lg.callers[c].pc = "guard"
    /\ IF lg.configured /\ ~lg.callers[c].allow
       THEN lg' = [lg EXCEPT !.lock = 0,
                             !.callers[c].found = lg.configured,
                             !.callers[c].pc = AfterInit(lg.callers[c])]
       ELSE lg' = [lg EXCEPT !.callers[c].found = lg.configured,
                             !.callers[c].pc = "load"]
    /\ UNCHANGED <<nodes, units, sensors, threads, mgr, tick, obs, call, heap, srv>>

\* line 41: load_config(config) returns the configuration
Load(c) ==
    /\ lg.callers[c].pc = "load"
    /\ lg' = [lg EXCEPT !.loads = Bump(@),
                        !.callers[c].loaded = Bump(@),
                        !.callers[c].pc =
                            IF lg.callers[c].env THEN "env" ELSE "apply"]
    /\ UNCHANGED <<nodes, units, sensors, threads, mgr, tick, obs, call, heap, srv>>

\* lines 42-43: apply_env_level_overrides(cfg) returns
EnvOverrides(c) ==
    /\ lg.callers[c].pc = "env"
    /\ lg' = [lg EXCEPT !.callers[c].pc = "apply"]
    /\ UNCHANGED <<nodes, units, sensors, threads, mgr, tick, obs, call, heap, srv>>

\* line 44: logging.config.dictConfig(cfg) returns
Apply(c) ==
    /\ lg.callers[c].pc = "apply"
    /\ lg' = [lg EXCEPT !.applies = Bump(@),
                        !.callers[c].applied = Bump(@),
                        !.callers[c].pc = "set"]
    /\ UNCHANGED <<nodes, units, sensors, threads, mgr, tick, obs, call, heap, srv>>

\* line 45 and the end of the with block: the flag is set, the lock released
SetConfigured(c) ==
    /\ lg.callers[c].pc = "set"
    /\ lg' = [lg EXCEPT !.configured = TRUE, !.lock = 0,
                        !.callers[c].pc = AfterInit(lg.callers[c])]
    /\ UNCHANGED <<nodes, units, sensors, threads, mgr, tick, obs, call, heap, srv>>

\* the counters after the call at position pc was made and raised
CountRaised(l, c) ==
    [l EXCEPT !.loads = IF l.callers[c].pc = "load" THEN Bump(@) ELSE @,
              !.applies = IF l.callers[c].pc = "apply" THEN Bump(@) ELSE @]

\* an exception that leaves the with block without releasing the lock
RaisesHoldingLock(c) ==
    /\ lg.callers[c].pc \in {"load", "env", "apply"}
    /\ lg' = [CountRaised(lg, c) EXCEPT
                 !.callers[c].exc = lg.callers[c].pc,
                 !.callers[c].pc = "raised"]
    /\ UNCHANGED <<nodes, units, sensors, threads, mgr, tick, obs, call, heap, srv>>

\* lines 41, 43, 44: load_config, apply_env_level_overrides or dictConfig
\* raises; the exception leaves the with block, which releases the lock,
\* and propagates out of init_logging (and out of get_logger)
Raises(c) ==
    /\ lg.callers[c].pc \in {"load", "env", "apply"}
    /\ lg' = [CountRaised(lg, c) EXCEPT
                 !.lock = 0,
                 !.callers[c].exc = lg.callers[c].pc,
                 !.callers[c].pc = "raised"]
    /\ UNCHANGED <<nodes, units, sensors, threads, mgr, tick, obs, call, heap, srv>>

\* line 57: get_logger returns logging.getLogger(name)
ReturnLogger(c) ==
    /\ lg.callers[c].pc = "return"
    /\ lg' = [lg EXCEPT !.callers[c].pc = "done"]
    /\ UNCHANGED <<nodes, units, sensors, threads, mgr, tick, obs, call, heap, srv>>

LogNext ==
    \/ CallGetLogger
    \/ \E allow \in BOOLEAN, env \in BOOLEAN : CallInitLogging(allow, env)
    \/ \E c \in DOMAIN lg.callers : GetLoggerCheck(c)
    \/ \E c \in DOMAIN lg.callers : Acquire(c)
    \/ \E c \in DOMAIN lg.callers : Guard(c)
    \/ \E c \in DOMAIN lg.callers : Load(c)
    \/ \E c \in DOMAIN lg.callers : EnvOverrides(c)
    \/ \E c \in DOMAIN lg.callers : Apply(c)
    \/ \E c \in DOMAIN lg.callers : SetConfigured(c)
    \/ \E c \in DOMAIN lg.callers : Raises(c)
    \/ \E c \in DOMAIN lg.callers : ReturnLogger(c)

LogSpec == Init /\ [][LogNext]_vars

\* ------------------------- logger/env_overrides.py: the level overrides
\* a dict is a function from its keys; os.environ is the sequence of its
\* (name, value) pairs in the order items() yields them
EmptyDict == [k \in {} |-> ""]

Put(d, k, v) == (k :> v) @@ d

\* d.setdefault(k, v): d with k bound to v when k was missing
SetDefault(d, k, v) == IF k \in DOMAIN d THEN d ELSE Put(d, k, v)

Unset == "<unset>"

\* os.getenv(name): the value, or nothing when the variable is not set
Getenv(env, name) ==
    IF \E i \in DOMAIN env : env[i].k = name
    THEN env[CHOOSE i \in DOMAIN env : env[i].k = name].v
    ELSE Unset

\* line 23, line 40: the value is set and is not the empty string
Truthy(value) == value # Unset /\ value # ""

\* _norm: level.strip().upper(), on the values of the environments below
Norm(level) ==
    [v \in {"", " Info ", "critical", "debug", "warning", " error "} |->
        CASE v = "" -> ""
          [] v = " Info " -> "INFO"
          [] v = "critical" -> "CRITICAL"
          [] v = "debug" -> "DEBUG"
          [] v = "warning" -> "WARNING"
          [] v = " error " -> "ERROR"][level]

\* line 28: the names that start with LOG_LEVEL_
LogLevelVars ==
    {"LOG_LEVEL_ROOT", "LOG_LEVEL_MYAPP", "LOG_LEVEL_MYAPP_API",
     "LOG_LEVEL_MYAPP__API"}

\* line 31: the name without its prefix, lower case, "__" and "_" as "."
LoggerName(k) ==
    [n \in LogLevelVars |->
        CASE n = "LOG_LEVEL_ROOT" -> "root"
          [] n = "LOG_LEVEL_MYAPP" -> "myapp"
          [] n = "LOG_LEVEL_MYAPP_API" -> "myapp.api"
          [] n = "LOG_LEVEL_MYAPP__API" -> "myapp.api"][k]

\* lines 22-24: LOG_LEVEL_ROOT sets the level of root
ApplyRootLevel(cfg, env) ==
    IF Truthy(Getenv(env, "LOG_LEVEL_ROOT"))
    THEN Put(cfg, "root",
             Put(SetDefault(cfg, "root", EmptyDict)["root"], "level",
                 Norm(Getenv(env, "LOG_LEVEL_ROOT"))))
    ELSE cfg

\* the entry line 33 creates for a logger the configuration does not have
DefaultLoggerCfg == ("handlers" :> <<"console">>) @@ ("propagate" :> FALSE)

\* lines 32-36 for one variable: the entry of the logger, created with the
\* default when missing, gets the level
ApplyLoggerLevel(cfg, k, v) ==
    Put(cfg, "loggers",
        Put(SetDefault(cfg, "loggers", EmptyDict)["loggers"], LoggerName(k),
            Put(SetDefault(SetDefault(cfg, "loggers", EmptyDict)["loggers"],
                           LoggerName(k), DefaultLoggerCfg)[LoggerName(k)],
                "level", Norm(v))))

\* lines 27-36: the loop over os.environ.items(), from position i on
RECURSIVE ApplyLoggerLevels(_, _, _)
ApplyLoggerLevels(cfg, env, i) ==
    IF i > Len(env) THEN cfg
    ELSE IF env[i].k \notin LogLevelVars \/ env[i].k = "LOG_LEVEL_ROOT"
    THEN ApplyLoggerLevels(cfg, env, i + 1)
    ELSE ApplyLoggerLevels(ApplyLoggerLevel(cfg, env[i].k, env[i].v), env, i + 1)

\* a LOG_CONSOLE_LEVEL that adds the console handler when it is missing
ConsoleLevelCreatesHandler(cfg, env) ==
    IF ~Truthy(Getenv(env, "LOG_CONSOLE_LEVEL")) THEN cfg
    ELSE Put(cfg, "handlers",
             Put(SetDefault(cfg, "handlers", EmptyDict)["handlers"], "console",
                 Put(SetDefault(SetDefault(cfg, "handlers", EmptyDict)["handlers"],
                                "console", EmptyDict)["console"],
                     "level", Norm(Getenv(env, "LOG_CONSOLE_LEVEL")))))

\* lines 38-46: LOG_CONSOLE_LEVEL sets the level of the handler console
\* when the configuration has one; line 42 creates an empty handlers
ApplyConsoleLevel(cfg, env) ==
    IF ~Truthy(Getenv(env, "LOG_CONSOLE_LEVEL")) THEN cfg
    ELSE IF "console" \notin DOMAIN SetDefault(cfg, "handlers", EmptyDict)["handlers"]
    THEN SetDefault(cfg, "handlers", EmptyDict)
    ELSE Put(cfg, "handlers",
             Put(cfg["handlers"], "console",
                 Put(cfg["handlers"]["console"], "level",
                     Norm(Getenv(env, "LOG_CONSOLE_LEVEL")))))

\* apply_env_level_overrides(cfg): cfg as the call leaves it
apply_env_level_overrides(cfg, env) ==
    ApplyConsoleLevel(ApplyLoggerLevels(ApplyRootLevel(cfg, env), env, 1), env)

\* the configurations: with or without root, loggers and handlers
MyappCfg ==
    ("level" :> "INFO") @@ ("handlers" :> <<"file">>) @@
    ("propagate" :> TRUE) @@ ("extra" :> "keep_me")

ApiCfg == ("level" :> "ERROR") @@ ("handlers" :> <<"console">>)

ConsoleCfg == ("level" :> "INFO") @@ ("class" :> "StreamHandler")

\* each part is the piece of the dict that holds it, empty when it is missing
RootInputs == {EmptyDict, "root" :> ("level" :> "WARNING")}

LoggersInputs ==
    {EmptyDict, "loggers" :> EmptyDict, "loggers" :> ("myapp" :> MyappCfg),
     "loggers" :> (("myapp" :> MyappCfg) @@ ("myapp.api" :> ApiCfg))}

HandlersInputs ==
    {EmptyDict, "handlers" :> EmptyDict,
     "handlers" :> ("console" :> ConsoleCfg),
     "handlers" :> ("file" :> ("level" :> "INFO"))}

\* the dict made of the parts
Cfg(root, loggers, handlers) == root @@ loggers @@ handlers

\* the environments: which variables are set, to what, and in which order
EnvOrders ==
    {<<"HOME", "LOG_LEVEL_ROOT", "LOG_LEVEL_MYAPP", "LOG_LEVEL_MYAPP_API",
       "LOG_LEVEL_MYAPP__API", "LOG_CONSOLE_LEVEL">>,
     <<"LOG_CONSOLE_LEVEL", "LOG_LEVEL_MYAPP__API", "LOG_LEVEL_MYAPP_API",
       "LOG_LEVEL_MYAPP", "LOG_LEVEL_ROOT", "HOME">>}

EnvValues ==
    [k \in {"HOME", "LOG_LEVEL_ROOT", "LOG_LEVEL_MYAPP", "LOG_LEVEL_MYAPP_API",
            "LOG_LEVEL_MYAPP__API", "LOG_CONSOLE_LEVEL"} |->
        CASE k = "HOME" -> {"/root"}
          [] k = "LOG_LEVEL_ROOT" -> {Unset, "", " Info "}
          [] k = "LOG_LEVEL_MYAPP" -> {Unset, "critical"}
          [] k = "LOG_LEVEL_MYAPP_API" -> {Unset, "debug"}
          [] k = "LOG_LEVEL_MYAPP__API" -> {Unset, "warning"}
          [] k = "LOG_CONSOLE_LEVEL" -> {Unset, "", " error "}]

Assignments ==
    {a \in [DOMAIN EnvValues -> UNION {EnvValues[k] : k \in DOMAIN EnvValues}] :
        \A k \in DOMAIN EnvValues : a[k] \in EnvValues[k]}

IsSet(e) == e.v # Unset

Environ(a, order) ==
    SelectSeq([i \in DOMAIN order |-> [k |-> order[i], v |-> a[order[i]]]], IsSet)

EnvInputs == {Environ(a, order) : a \in Assignments, order \in EnvOrders}

\* a configuration and an environment are given, the function not yet called
EnvInit ==
    /\ nodes = <<>>
    /\ units = <<>>
    /\ sensors = <<>>
    /\ threads = <<>>
    /\ mgr = [pc |-> "idle", i |-> 0, last |-> NoCall, stub |-> Stub]
    /\ tick = <<>>
    /\ obs = <<>>
    /\ heap = <<>>
    /\ srv = SrvIdle
    /\ lg = Unconfigured
    /\ \E root \in RootInputs, loggers \in LoggersInputs,
          handlers \in HandlersInputs, env \in EnvInputs :
            call = [op |-> "pending", cfg |-> Cfg(root, loggers, handlers),
                    env |-> env]

\* the caller calls apply_env_level_overrides(cfg)
CallApplyEnvLevelOverrides ==
    /\ call.op = "pending"
    /\ call' = [op |-> "apply_env_level_overrides", cfg |-> call.cfg,
                env |-> call.env,
                result |-> apply_env_level_overrides(call.cfg, call.env)]
    /\ UNCHANGED <<nodes, units, sensors, threads, mgr, tick, obs, heap, srv, lg>>

EnvNext == CallApplyEnvLevelOverrides

EnvSpec == EnvInit /\ [][EnvNext]_vars

\* ------------------------------------------------------------------ claims
AllExited == \A i \in DOMAIN threads : ~Alive(units[threads[i]])

StopAllReturned == Idle /\ mgr.last.op = "stop_all"

InStopAll == mgr.pc \in {"stop", "join"}

\* C1: with three temperature sensors registered and stop_all() called right
\* after start_all() returned, stop_all() eventually returns with all three
\* threads exited, under fair scheduling (as the claim states it)
C1_StopAllEventuallyReturns ==
    InStopAll ~> (StopAllReturned /\ Len(threads) = NumScenarioSensors /\ AllExited)

\* C2: whenever stop_all() has returned, every thread the manager recorded
\* has ended, failing sends or not
C2_NoUnitAliveAfterStopAll == StopAllReturned => AllExited

\* stop_all() has returned over a thread whose last send failed
C2_Witness ==
    /\ StopAllReturned
    /\ \E i \in DOMAIN threads :
         /\ units[threads[i]].pc = "done"
         /\ tick[threads[i]].errors = 1

\* C3: a failed send is caught in its iteration: one error line, no second
\* send in that iteration, the unit goes on to sleep and to the next loop
\* check, and the step of the failure leaves every running flag as it was
C3_TransportFailureIsCaught ==
    /\ [](\A u \in DOMAIN units :
            /\ tick[u].sends <= 1
            /\ tick[u].errors + tick[u].infos <= tick[u].sends
            /\ tick[u].errors = 1 =>
                 /\ units[u].pc \in {"sleep", "check", "done"}
                 /\ tick[u].infos = 0)
    /\ [][\A u \in DOMAIN units : SendFail(u) =>
            /\ nodes' = nodes
            /\ tick'[u].errors = 1
            /\ units'[u].pc = "sleep"]_vars
    /\ [][\A n \in DOMAIN nodes :
            (nodes[n].running /\ ~nodes'[n].running) => CallStop(n)]_vars

\* after a failed send the unit has slept and stands at the loop condition
\* of the next iteration, flag still true
C3_Witness ==
    \E u \in DOMAIN units :
        /\ tick[u].errors = 1
        /\ tick[u].sleeps = 1
        /\ units[u].pc = "check"
        /\ nodes[units[u].target].running

\* C4: stop() is total, leaves the flag false and moves no thread; called
\* again with no run() entry in between it changes nothing of the node; from
\* the last stop() to the next run() entry the flag stays false
C4_StopIsIdempotent ==
    /\ [](\A n \in DOMAIN nodes :
            /\ ENABLED CallStop(n)
            /\ (obs[n].stops > 0 /\ ~obs[n].reentered) => ~nodes[n].running)
    /\ [][\A n \in DOMAIN nodes : CallStop(n) =>
            /\ ~nodes'[n].running
            /\ units' = units
            /\ (~nodes[n].running => nodes' = nodes)]_vars

\* stop() was called at least twice, the last time after run() had returned
C4_Witness ==
    \E n \in DOMAIN nodes :
        /\ obs[n].stops >= 2
        /\ ~obs[n].reentered
        /\ obs[n].loops = 0
        /\ \E u \in UnitsOf(n) : units[u].pc = "done"

\* C5: after a stop() that found exactly one run() loop active on the node,
\* and as long as no run() entry sets the flag again, that loop sees the flag
\* false at its next check, begins at most one send (the one of the iteration
\* in progress) and starts no iteration after it; stop() itself moves no
\* thread
C5_CooperativeStop ==
    /\ [](\A n \in DOMAIN nodes :
            (obs[n].stops > 0 /\ obs[n].loops = 1 /\ ~obs[n].reentered) =>
                /\ obs[n].sends <= 1
                /\ ~nodes[n].running
                /\ obs[n].sends = 1 =>
                     \A u \in UnitsOf(n) : units[u].pc # "read")
    /\ [][StopAllSignal => units' = units]_vars

\* the loop that was active at stop() completed its iteration with one send
\* and returned
C5_Witness ==
    \E n \in DOMAIN nodes :
        /\ obs[n].stops > 0
        /\ obs[n].loops = 1
        /\ ~obs[n].reentered
        /\ obs[n].sends = 1
        /\ \E u \in UnitsOf(n) : units[u].pc = "done"

\* C6: a unit is at or in a send only after read_data() returned a valid
\* Reading in the same iteration; a failed validation is followed by no send
C6_NoSendWithoutValidReading ==
    \A u \in DOMAIN units :
        /\ (units[u].pc = "sending" \/ tick[u].sends > 0) =>
              (tick[u].reads = 1 /\ tick[u].valid)
        /\ (tick[u].reads = 1 /\ ~tick[u].valid) => tick[u].sends = 0

\* read_data() failed validation in run() and nothing was sent
C6_Witness ==
    \E u \in DOMAIN units :
        /\ tick[u].reads = 1
        /\ ~tick[u].valid
        /\ tick[u].sends = 0
        /\ units[u].pc = "raised"

\* C7: a validation error of read_data() inside run() does not end the loop
C7_ValidationErrorSkipsTick ==
    \A u \in DOMAIN units :
        (tick[u].reads = 1 /\ ~tick[u].valid) => Alive(units[u])

\* C8: the step of a failed send changes nothing of the manager, no sensor
\* and no other thread, and no start_all()/stop_all() call ends in an error
C8_TransportErrorIsIsolated ==
    /\ [](mgr.last.op \in {"start_all", "stop_all"} => mgr.last.raised = "none")
    /\ [][\A u \in DOMAIN units : SendFail(u) =>
            /\ sensors' = sensors
            /\ threads' = threads
            /\ mgr' = mgr
            /\ nodes' = nodes
            /\ \A v \in DOMAIN units \ {u} : units'[v] = units[v]]_vars

\* one sensor's send has failed while another sensor's send is in flight
C8_Witness ==
    \E u, v \in DOMAIN units :
        /\ units[u].target # units[v].target
        /\ tick[u].errors = 1
        /\ units[u].pc = "sleep"
        /\ units[v].pc = "sending"
        /\ nodes[units[v].target].running

\* C9: no sensor has two sends in flight
C9_OneSendInFlight ==
    \A n \in DOMAIN nodes :
        Cardinality({u \in UnitsOf(n) : units[u].pc = "sending"}) <= 1

ExpectedIds(N) == [i \in 1 .. N |-> "sensor_" \o ToString(i)]

\* C10: the ids of the registered sensors are sensor_1 .. sensor_N in
\* creation order, whatever start_all()/stop_all() came in between
C10_IdsAreSequential ==
    [i \in 1 .. Len(sensors) |-> nodes[sensors[i]].sensor_id] =
        ExpectedIds(Len(sensors))

\* the second sensor was added after a start_all() had run
C10_Witness ==
    /\ Len(sensors) = 2
    /\ Len(threads) = 1
    /\ Idle

\* the type arguments add_sensor has no constructor for
Unregistered ==
    {t \in SensorTypeArgs : ~t.enum \/ t.value \notin DOMAIN SENSOR_TYPE_MAPPING}

NotEnum == [enum |-> FALSE, value |-> "not_enum"]

LastId == nodes[sensors[Len(sensors)]].sensor_id

\* C11: add_sensor with a raw string or with a member that has no constructor
\* ends in an error at its caller and changes neither list, no sensor and no
\* thread; a valid add_sensor right after a rejected one gets the next id
C11_RejectedAddChangesNothing ==
    /\ [][\A t \in Unregistered : AddSensor(t, DefaultInterval) =>
            /\ mgr'.last.op = "add_sensor"
            /\ mgr'.last.raised # "none"
            /\ mgr'.pc = "idle"
            /\ sensors' = sensors
            /\ threads' = threads
            /\ nodes' = nodes
            /\ units' = units]_vars
    /\ [][(mgr.last.raised # "none" /\ AddSensor(TEMPERATURE, DefaultInterval)) =>
            /\ mgr'.last.op = "add_sensor"
            /\ mgr'.last.raised = "none"
            /\ Len(sensors') = Len(sensors) + 1
            /\ LastId' = ExpectedIds(Len(sensors'))[Len(sensors')]]_vars

\* a rejected add_sensor on a manager that holds a sensor and a live thread
C11_Witness ==
    /\ mgr.last.op = "add_sensor"
    /\ mgr.last.raised # "none"
    /\ Len(sensors) = 1
    /\ \E i \in DOMAIN threads : Alive(units[threads[i]])

\* C12: add_sensor("not_enum") raises TypeError
C12_NonEnumRaisesTypeError ==
    [][AddSensor(NotEnum, DefaultInterval) =>
         mgr'.last = Raised("add_sensor", "TypeError")]_vars

\* C13: a successful add_sensor makes the sensor list one longer with the
\* old list as its prefix, leaves every existing sensor as it was, creates
\* and starts no thread and leaves the thread list alone
C13_AddAppendsOne ==
    [][\A t \in SensorTypeArgs \ Unregistered : AddSensor(t, DefaultInterval) =>
         /\ Len(sensors') = Len(sensors) + 1
         /\ SubSeq(sensors', 1, Len(sensors)) = sensors
         /\ sensors'[Len(sensors')] \notin DOMAIN nodes
         /\ \A n \in DOMAIN nodes : nodes'[n] = nodes[n]
         /\ nodes'[sensors'[Len(sensors')]].running = FALSE
         /\ threads' = threads
         /\ units' = units]_vars

\* a second sensor was just added next to a first one whose thread is alive
C13_Witness ==
    /\ mgr.last.op = "add_sensor"
    /\ mgr.last.raised = "none"
    /\ Len(sensors) = 2
    /\ \E i \in DOMAIN threads :
         /\ units[threads[i]].target = sensors[1]
         /\ Alive(units[threads[i]])

\* start_all() has run to its end (under OnceSpec: exactly once)
StartAllExecuted == threads # <<>> /\ mgr.pc # "start"

\* C14: once start_all() has executed exactly once, the sensor list and the
\* thread list have the same length, whatever add_sensor and stop_all calls
\* follow
C14_ListsSameLength == StartAllExecuted => Len(sensors) = Len(threads)

\* the thread start_all recorded for the k-th sensor when it has launched m
LaunchedFor(k, m) == units[threads[Len(threads) - m + k]]

\* C15: start_all() creates, records and starts one daemon thread per
\* registered sensor in list order, the k-th on the k-th sensor's run(), each
\* at the entry of run(); no step of it waits: the next launch, and the
\* return after the last one, is possible whatever the threads have done
C15_StartAllLaunchesOnePerSensor ==
    /\ [](mgr.pc = "start" =>
            /\ mgr.i \in 1 .. (Len(sensors) + 1)
            /\ Len(threads) >= mgr.i - 1
            /\ \A k \in 1 .. (mgr.i - 1) :
                 /\ LaunchedFor(k, mgr.i - 1).target = sensors[k]
                 /\ LaunchedFor(k, mgr.i - 1).daemon
            /\ IF mgr.i <= Len(sensors) THEN ENABLED StartAllStep
               ELSE ENABLED StartAllReturn)
    /\ [][StartAllCall => (mgr'.pc = "start" /\ mgr'.i = 1 /\ threads' = threads
                            /\ units' = units)]_vars
    /\ [][StartAllStep =>
            /\ Len(threads') = Len(threads) + 1
            /\ SubSeq(threads', 1, Len(threads)) = threads
            /\ threads'[Len(threads')] \notin DOMAIN units
            /\ units'[threads'[Len(threads')]] =
                 [target |-> sensors[mgr.i], daemon |-> TRUE, pc |-> "entry",
                  read |-> <<>>]
            /\ \A u \in DOMAIN units : units'[u] = units[u]
            /\ mgr'.i = mgr.i + 1
            /\ sensors' = sensors
            /\ nodes' = nodes]_vars
    /\ [][StartAllReturn =>
            /\ mgr.i = Len(sensors) + 1
            /\ mgr'.last.op = "start_all"
            /\ mgr'.last.raised = "none"
            /\ threads' = threads
            /\ units' = units]_vars
    /\ [][(mgr.pc = "start" /\ mgr' # mgr) => (StartAllStep \/ StartAllReturn)]_vars

\* start_all() has returned over two sensors before either thread executed
\* the first statement of run()
C15_Witness ==
    /\ Idle
    /\ mgr.last.op = "start_all"
    /\ Len(sensors) = 2
    /\ Len(threads) = 2
    /\ \A k \in 1 .. 2 :
         /\ units[threads[k]].target = sensors[k]
         /\ units[threads[k]].daemon
         /\ units[threads[k]].pc = "entry"

\* C16: stop_all() signals the sensors one by one in list order, each once,
\* and enters the join loop only after the last stop(); no stop() is issued
\* during the join loop, which waits for the recorded threads one after
\* another
C16_SignalsBeforeJoins ==
    /\ [](mgr.pc = "stop" =>
            /\ mgr.i \in 1 .. Len(sensors)
            /\ \A k \in 1 .. (mgr.i - 1) : obs[sensors[k]].stops > 0)
    /\ [](mgr.pc = "join" =>
            /\ mgr.i \in 1 .. (Len(threads) + 1)
            /\ \A k \in 1 .. Len(sensors) : obs[sensors[k]].stops > 0
            /\ \A k \in 1 .. (mgr.i - 1) : ~Alive(units[threads[k]]))
    /\ [][StopAllCall =>
            IF sensors = <<>> THEN mgr'.pc = "join" /\ mgr'.i = 1
            ELSE mgr'.pc = "stop" /\ mgr'.i = 1]_vars
    /\ [][StopAllSignal =>
            /\ ~nodes'[sensors[mgr.i]].running
            /\ \A n \in DOMAIN nodes \ {sensors[mgr.i]} : nodes'[n] = nodes[n]
            /\ units' = units
            /\ IF mgr.i < Len(sensors)
               THEN mgr'.pc = "stop" /\ mgr'.i = mgr.i + 1
               ELSE mgr'.pc = "join" /\ mgr'.i = 1]_vars
    /\ [][(mgr.pc = "stop" /\ mgr' # mgr) => StopAllSignal]_vars
    /\ [][mgr.pc = "join" =>
            \A n \in DOMAIN nodes : nodes[n].running => nodes'[n].running]_vars
    /\ [][StopAllJoin =>
            /\ ~Alive(units[threads[mgr.i]])
            /\ mgr'.pc = "join"
            /\ mgr'.i = mgr.i + 1]_vars
    /\ [][(mgr.pc = "join" /\ mgr' # mgr) => (StopAllJoin \/ StopAllReturn)]_vars
    /\ [][StopAllReturn => mgr.i = Len(threads) + 1]_vars

\* both sensors are signalled, the join loop is about to wait for the first
\* thread, which is still in its send
C16_Witness ==
    /\ mgr.pc = "join"
    /\ mgr.i = 1
    /\ Len(sensors) = 2
    /\ \A k \in 1 .. 2 : ~nodes[sensors[k]].running
    /\ Len(threads) = 2
    /\ units[threads[1]].pc = "sending"

\* C17: on a manager without sensors start_all() and stop_all() go straight
\* to their return, which is always possible: no launch, no stop(), no join,
\* both lists and every thread unchanged, and the return logs the call's
\* completion line
C17_EmptyFleetNoOp ==
    /\ [](sensors = <<>> =>
            /\ threads = <<>>
            /\ units = <<>>
            /\ mgr.pc # "stop"
            /\ ~ENABLED StartAllStep
            /\ ~ENABLED StopAllJoin
            /\ mgr.pc = "start" => ENABLED StartAllReturn
            /\ mgr.pc = "join" => ENABLED StopAllReturn
            /\ mgr.last.op = "start_all" =>
                 mgr.last = Logged("start_all", "All sensors have been started.")
            /\ mgr.last.op = "stop_all" =>
                 mgr.last = Logged("stop_all", "All sensors have been stopped."))
    /\ [][(sensors = <<>> /\ (StartAllCall \/ StartAllReturn \/ StopAllCall
                               \/ StopAllReturn)) =>
            /\ sensors' = sensors
            /\ threads' = threads
            /\ units' = units
            /\ nodes' = nodes]_vars
    /\ [][(sensors = <<>> /\ StartAllReturn) => mgr'.last.op = "start_all"]_vars
    /\ [][(sensors = <<>> /\ StopAllReturn) => mgr'.last.op = "stop_all"]_vars

\* stop_all() has returned on a manager that never held a sensor
C17_Witness ==
    /\ sensors = <<>>
    /\ Idle
    /\ mgr.last = Logged("stop_all", "All sensors have been stopped.")

\* C18: a run() entered on a node whose earlier run() has returned (after a
\* stop()) does not make the node active again
C18_RunNotReenterable ==
    [][\A u \in DOMAIN units :
         (RunEntry(u) /\ \E v \in UnitsOf(units[u].target) : units[v].pc = "done")
             => ~nodes'[units[u].target].running]_vars

\* the send of the first sensor's thread is in flight
Hung == 1 \in DOMAIN units /\ units[1].pc = "sending"

OthersExited ==
    \A u \in 2 .. NumScenarioSensors : u \in DOMAIN units /\ ~Alive(units[u])

\* while the first sensor's send never returns, stop_all() does not return
StopAllBlockedWhileHung == <>[]Hung => []~StopAllReturned

\* C19: if the send of one sensor never returns, stop_all() never returns,
\* and the thread of every other sensor sees its flag cleared and ends
C19_HungSendBlocksOnlyItsUnit ==
    <>[]Hung => ([]~StopAllReturned /\ <>[]OthersExited)

\* a recorded thread has ended in an error that run() does not handle
Crashed == \E i \in DOMAIN threads : units[threads[i]].pc = "raised"

\* C20: when a thread ends in an unhandled error the manager launches
\* nothing in its place (threads are created by start_all() only), the step
\* of the failure touches no sensor, no other thread and not the manager,
\* and a stop_all() in progress after the failure returns
C20_CrashedUnitIsNotReplaced ==
    /\ [][Len(units') > Len(units) => StartAllStep]_vars
    /\ [][\A u \in DOMAIN units :
            (ReadData(u) /\ units'[u].pc = "raised") =>
                /\ nodes' = nodes
                /\ mgr' = mgr
                /\ threads' = threads
                /\ \A v \in DOMAIN units \ {u} : units'[v] = units[v]]_vars
    /\ (Crashed /\ InStopAll) ~> StopAllReturned

\* threads of two different sensors
TwoSensors(u, v) ==
    /\ u \in DOMAIN units
    /\ v \in DOMAIN units
    /\ units[u].target # units[v].target

\* C21: nothing orders the sends of two sensors: when both threads are about
\* to send, either may send first, and a thread may begin its send while the
\* send of the other is in flight
C21_SendsAreNotOrdered ==
    \A u, v \in DOMAIN units :
        (TwoSensors(u, v) /\ units[v].pc = "read") =>
            /\ units[u].pc = "read" => (ENABLED ReadData(u) /\ ENABLED ReadData(v))
            /\ units[u].pc = "sending" => ENABLED ReadData(v)

\* the sensor created second has completed a send before the sensor created
\* first has executed the first statement of run(), and stands at its loop
\* condition while the send of the third is in flight
C21_Witness ==
    /\ Len(units) = 3
    /\ units[1].pc = "entry"
    /\ tick[2].infos = 1
    /\ tick[2].sleeps = 1
    /\ units[2].pc = "check"
    /\ units[3].pc = "sending"

OtherFieldsDeclared(a) ==
    /\ a.sensor_id # ""
    /\ a.sensor_type \in {"temperature", "humidity", "motion_ir", "position"}
    /\ a.unit \in {"degC", "%", "lux", "boolean", "integer", "float"}

\* C23: the construction fails for None, for a text that spells no number
\* and for NaN; it succeeds for every int, float and infinity (the other
\* fields being valid) and stores that number as a float; a failed
\* construction leaves no object, a successful one exactly one
C23_ValueValidation ==
    call.op = "SensorReading" =>
        /\ call.args.value.kind \in {"none", "str", "nan"} => ~call.result.ok
        /\ (call.args.value.kind \in {"int", "float", "inf"}
              /\ OtherFieldsDeclared(call.args)) =>
                /\ call.result.ok
                /\ call.result.obj[1].value.v = call.args.value.v
                /\ call.result.obj[1].value.kind =
                     (IF call.args.value.kind = "inf" THEN "inf" ELSE "float")
        /\ call.result.ok => Len(call.result.obj) = 1
        /\ ~call.result.ok => call.result.obj = <<>>

\* a reading was constructed with the value minus infinity
C23_Witness ==
    /\ call.op = "SensorReading"
    /\ call.args.value = Inf(-1)
    /\ call.result.ok
    /\ call.result.obj[1].value = Inf(-1)

\* the value of the call is one the value field accepts
ValueAccepted(a) == a.value.kind \in {"int", "float", "inf", "numstr"}

\* C24: with an accepted value, the construction succeeds exactly when
\* sensor_type is one of the four declared tags, unit one of the six and
\* sensor_id is not empty, and it stores the three inputs unchanged
C24_EnumerationClosure ==
    (call.op = "SensorReading" /\ ValueAccepted(call.args)) =>
        /\ call.result.ok <=> OtherFieldsDeclared(call.args)
        /\ call.result.ok =>
             /\ call.result.obj[1].sensor_id = call.args.sensor_id
             /\ call.result.obj[1].sensor_type = call.args.sensor_type
             /\ call.result.obj[1].unit = call.args.unit

\* a construction refused for the upper-case spelling of a declared tag
C24_Witness ==
    /\ call.op = "SensorReading"
    /\ call.args = [sensor_id |-> "t-1", sensor_type |-> "TEMPERATURE",
                    value |-> Float(25), unit |-> "degC"]
    /\ ~call.result.ok

\* C25: a call of read_data() on a node with a non-empty id returns a valid
\* Reading that carries the node's id, the type temperature and the unit
\* degrees Celsius; on a node with an empty id it fails with a validation
\* error and returns nothing; in both cases no field of the node changes
C25_ReadDataResult ==
    [][\A n \in DOMAIN nodes :
        CallReadData(n) =>
            /\ nodes' = nodes
            /\ nodes[n].sensor_id # "" =>
                 /\ call'.result.ok
                 /\ Len(call'.result.obj) = 1
                 /\ call'.result.obj[1].sensor_id = nodes[n].sensor_id
                 /\ call'.result.obj[1].sensor_type = "temperature"
                 /\ call'.result.obj[1].unit = "degC"
                 /\ call'.result.obj[1].value.kind = "float"
            /\ nodes[n].sensor_id = "" =>
                 /\ ~call'.result.ok
                 /\ call'.result.obj = <<>>]_vars

\* read_data() returned a Reading of the node t-1
C25_Witness ==
    /\ call.op = "read_data"
    /\ nodes[call.node].sensor_id = "t-1"
    /\ call.result.ok
    /\ call.result.obj[1].sensor_id = "t-1"
    /\ call.result.obj[1].value = Float(18)

\* C26: every value returned by read_data(), after any number of calls,
\* lies in the closed range [18.0, 30.0]
C26_ValueInRange ==
    (call.op = "read_data" /\ call.result.ok) =>
        /\ call.result.obj[1].value.v >= 18
        /\ call.result.obj[1].value.v <= 30

\* read_data() returned the upper end of the range
C26_Witness ==
    /\ call.op = "read_data"
    /\ call.result.ok
    /\ call.result.obj[1].value.v = 30

\* the mapping {id, type} of node n
MetadataOf(n) ==
    [k \in {"id", "type"} |->
        IF k = "id" THEN nodes[n].sensor_id ELSE "temperature"]

\* C27: get_metadata() changes no field of the node and returns a mapping
\* that no earlier call returned, equal to {id, type} of the node whatever
\* was done to the mappings returned before, and it leaves those mappings as
\* they are; adding a key to one returned mapping changes no other mapping
\* and no field of the node
C27_MetadataIsFresh ==
    [][/\ \A n \in DOMAIN nodes :
            CallGetMetadata(n) =>
                /\ nodes' = nodes
                /\ call'.result \notin DOMAIN heap
                /\ heap'[call'.result] = MetadataOf(n)
                /\ \A r \in DOMAIN heap : heap'[r] = heap[r]
       /\ \A ref \in DOMAIN heap, key \in ExtraKeys :
            SetItem(ref, key) =>
                /\ nodes' = nodes
                /\ key \in DOMAIN heap'[ref]
                /\ \A r \in DOMAIN heap \ {ref} : heap'[r] = heap[r]]_vars

\* two calls returned two mappings; the first has been given a key of its
\* own and the second is the plain {id, type}
C27_Witness ==
    /\ Len(heap) = 2
    /\ call.op = "get_metadata"
    /\ call.result = 2
    /\ "extra" \in DOMAIN heap[1]
    /\ heap[2] = MetadataOf(call.node)

\* C28: a SendReading handler that has replied, or is about to, has called
\* on_receive exactly once, with the reading of its own request; its reply
\* is success = true with the message "Reading received" and is given only
\* after the callback returned; a handler whose callback raised ends with
\* that error and never replies; a finished handler stays as it is
C28_CallbackOnceThenAck ==
    /\ [](\A h \in DOMAIN srv :
            /\ srv[h].pc = "entry" => (srv[h].received = <<>> /\ srv[h].reply = <<>>)
            /\ srv[h].pc # "entry" => srv[h].received = <<srv[h].reading>>
            /\ srv[h].reply # <<>> <=> srv[h].pc = "done"
            /\ srv[h].reply # <<>> =>
                 srv[h].reply[1] = [success |-> TRUE, message |-> "Reading received"]
            /\ srv[h].exc # <<>> <=> srv[h].pc = "raised")
    /\ [][\A h \in DOMAIN srv :
            /\ srv[h].pc \in {"done", "raised"} => srv'[h] = srv[h]
            /\ srv'[h].pc = "done" => srv[h].pc \in {"reply", "done"}
            /\ srv'[h].pc = "reply" => srv[h].pc \in {"await", "reply"}]_vars

\* one handler acknowledged its reading while another ended with the error
\* of its callback
C28_Witness ==
    /\ Len(srv) = 2
    /\ srv[1].pc = "done"
    /\ srv[1].received = <<"reading">>
    /\ srv[1].reply = <<[success |-> TRUE, message |-> "Reading received"]>>
    /\ srv[2].pc = "raised"
    /\ srv[2].reply = <<>>

\* the latest iteration of unit u has read once and sent once
ReadAndSent(u) ==
    /\ tick[u].reads = 1
    /\ tick[u].valid
    /\ tick[u].sends = 1

\* the latest iteration of unit u has logged exactly one line: the info line
\* with the acknowledgement message, or the error line
LoggedOnce(u) ==
    \/ /\ tick[u].infos = 1
       /\ tick[u].errors = 0
       /\ tick[u].log = [level |-> "info", message |-> "Reading received"]
    \/ /\ tick[u].infos = 0
       /\ tick[u].errors = 1
       /\ tick[u].log.level = "error"

\* C29: in every iteration of run() the send begins after exactly one
\* read_data() and nothing else, with a payload of the node's id, its type
\* tag and a value of the range read_data() draws from; the one log line
\* comes after the one send and before the sleep; the one sleep, of the
\* node's interval, comes after the log line; and the running flag is
\* re-checked only with all four done, or with none at the entry of run();
\* an iteration whose read_data() raised has sent, logged and slept nothing
C29_IterationOrder ==
    /\ [](\A u \in DOMAIN units :
            /\ units[u].pc = "read" => tick[u] = NoTick
            /\ units[u].pc = "raised" =>
                 /\ tick[u].reads = 1 /\ tick[u].sends = 0
                 /\ tick[u].log = NoLog /\ tick[u].sleeps = 0
            /\ units[u].pc = "sending" =>
                 /\ ReadAndSent(u)
                 /\ tick[u].infos = 0 /\ tick[u].errors = 0
                 /\ tick[u].log = NoLog /\ tick[u].sleeps = 0
                 /\ Len(units[u].read) = 1
                 /\ units[u].read[1].sensor_id = nodes[units[u].target].sensor_id
                 /\ units[u].read[1].sensor_type = "temperature"
                 /\ units[u].read[1].value.kind = "float"
                 /\ units[u].read[1].value.v \in 18 .. 30
            /\ units[u].pc = "sleep" =>
                 ReadAndSent(u) /\ LoggedOnce(u) /\ tick[u].sleeps = 0
            /\ units[u].pc \in {"check", "done"} =>
                 \/ tick[u] = NoTick
                 \/ /\ ReadAndSent(u) /\ LoggedOnce(u)
                    /\ tick[u].sleeps = 1
                    /\ tick[u].slept = nodes[units[u].target].interval)
    /\ [][\A u \in DOMAIN units :
            /\ ReadData(u) =>
                 (units'[u].pc = "sending" =>
                    \E x \in RandomUniform(18, 30) :
                        units'[u].read[1].value = Float(x))
            /\ LoopCheck(u) => units'[u].pc \in {"read", "done"}]_vars

\* an iteration that ended with the info line and one whose send failed,
\* both with their sleep done and back at the check of the flag
C29_Witness ==
    /\ Len(units) = 2
    /\ \A u \in 1 .. 2 : units[u].pc = "check" /\ tick[u].sleeps = 1
    /\ tick[1].log = [level |-> "info", message |-> "Reading received"]
    /\ tick[2].log.level = "error"
    /\ tick[1].slept = 2

\* run() is executing on no thread for node n: every thread of n is still
\* to enter run(), has returned from it, or was ended by an exception
NotExecuting(n) ==
    \A u \in UnitsOf(n) : units[u].pc \in {"entry", "done", "raised"}

\* C30: the running flag of a node is false in every state in which its
\* run() is not executing: before run() is entered, after it returned and
\* after an error ended it
C30_RunningOnlyWhileExecuting ==
    \A n \in DOMAIN nodes : NotExecuting(n) => ~nodes[n].running

\* the threads of node n that have entered run() and not left it
LiveUnits(n) == {u \in UnitsOf(n) : InLoop(units[u])}

\* C31: whatever calls of add_sensor, start_all and stop_all were made,
\* every registered sensor has at most one live thread running its loop
C31_OneLiveUnitPerSensor ==
    \A i \in DOMAIN sensors : Cardinality(LiveUnits(sensors[i])) <= 1

\* stop_all is executing, and it was called before any thread was started
\* or right after an earlier stop_all had returned
RepeatedStopAll ==
    /\ InStopAll
    /\ \/ threads = <<>>
       \/ mgr.last.op = "stop_all" /\ mgr.last.raised = "none"

\* C32: a stop_all called before any start_all, or again after stop_all has
\* returned, never waits (every thread it comes to join has ended), changes
\* neither the sensor list nor the thread list, and returns, raising
\* nothing, with the running flag of every sensor false
C32_StopAllIdempotent ==
    /\ [](RepeatedStopAll =>
            ((mgr.pc = "join" /\ mgr.i <= Len(threads)) =>
                Joinable(units[threads[mgr.i]])))
    /\ [][RepeatedStopAll =>
            /\ sensors' = sensors
            /\ threads' = threads
            /\ StopAllReturn =>
                 /\ mgr'.last.op = "stop_all"
                 /\ mgr'.last.raised = "none"
                 /\ \A i \in DOMAIN sensors : ~nodes'[sensors[i]].running]_vars

\* a second stop_all has joined the two threads again and is about to return
C32_Witness ==
    /\ RepeatedStopAll
    /\ Len(threads) = 2
    /\ mgr.last.op = "stop_all"
    /\ mgr.pc = "join"
    /\ mgr.i = 3

\* C33: check_value raises "The value cannot be None" for None, "The value
\* cannot be a string" for every string, one that spells a number included,
\* and "The value cannot be NaN" for NaN; every other input, an int and both
\* infinities included, is returned as it was given
C33_CheckValueDirect ==
    call.op = "check_value" =>
        /\ call.args.value.kind = "none" =>
             (~call.result.ok /\ call.result.msg = "The value cannot be None")
        /\ call.args.value.kind \in {"str", "numstr"} =>
             (~call.result.ok /\ call.result.msg = "The value cannot be a string")
        /\ call.args.value.kind = "nan" =>
             (~call.result.ok /\ call.result.msg = "The value cannot be NaN")
        /\ call.args.value.kind \in {"int", "float", "inf"} =>
             (call.result.ok /\ call.result.v = call.args.value)

\* the validator was called with the int 42 and returned the int 42
C33_Witness ==
    /\ call.op = "check_value"
    /\ call.args.value = PyInt(42)
    /\ call.result.ok
    /\ call.result.v = PyInt(42)

OnlyGetLogger ==
    \A c \in DOMAIN lg.callers :
        lg.callers[c].op = "get_logger" /\ lg.callers[c].pc # "raised"

\* C35: with get_logger the only call made, on any number of threads and in
\* any interleaving, load_config and dictConfig are called at most once
\* each, and a get_logger that is about to return or has returned finds
\* the flag set and the configuration loaded once and applied once
C35_ConfiguredOnce ==
    OnlyGetLogger =>
        /\ lg.loads <= 1
        /\ lg.applies <= 1
        /\ \A c \in DOMAIN lg.callers :
             lg.callers[c].pc \in {"return", "done"} =>
                (lg.configured /\ lg.loads = 1 /\ lg.applies = 1)

\* two get_logger calls both read the flag unset; the first configured, the
\* second found the flag set under the lock; both returned
C35_Witness ==
    /\ Len(lg.callers) = 2
    /\ OnlyGetLogger
    /\ \A c \in 1 .. 2 : lg.callers[c].pc = "done"
    /\ lg.callers[1].applied = 1
    /\ lg.callers[2].found
    /\ lg.callers[2].applied = 0

\* C36: an init_logging(allow_reconfigure=False) that finds the flag set
\* calls neither load_config nor dictConfig and leaves at its guard with the
\* counters and the flag as they were; the flag, once set, stays set; an
\* init_logging(allow_reconfigure=True) that has returned has called
\* load_config and dictConfig once each, whether the flag was set or not
C36_ReconfigureGuard ==
    /\ [](\A c \in DOMAIN lg.callers :
            /\ (~lg.callers[c].allow /\ lg.callers[c].found) =>
                 /\ lg.callers[c].loaded = 0
                 /\ lg.callers[c].applied = 0
                 /\ lg.callers[c].pc \in {"return", "done"}
                 /\ lg.configured
            /\ (lg.callers[c].allow /\ lg.callers[c].pc = "done") =>
                 /\ lg.callers[c].loaded = 1
                 /\ lg.callers[c].applied = 1)
    /\ [][/\ lg.configured => lg'.configured
          /\ \A c \in DOMAIN lg.callers :
               (Guard(c) /\ lg.configured /\ ~lg.callers[c].allow) =>
                   /\ lg'.loads = lg.loads
                   /\ lg'.applies = lg.applies
                   /\ lg'.callers[c].pc \in {"return", "done"}]_vars

\* after one configuring call, an init_logging(allow_reconfigure=False) has
\* returned without loading anything
C36_Witness ==
    /\ Len(lg.callers) = 2
    /\ lg.callers[1].pc = "done" /\ lg.callers[1].applied = 1
    /\ lg.callers[2].op = "init_logging"
    /\ ~lg.callers[2].allow
    /\ lg.callers[2].found
    /\ lg.callers[2].pc = "done"
    /\ lg.callers[2].loaded = 0
    /\ lg.loads = 1

\* an init_logging(allow_reconfigure=True) on a configured process has
\* loaded and applied the configuration a second time
ReconfiguredAgain ==
    /\ Len(lg.callers) = 2
    /\ lg.callers[2].op = "init_logging"
    /\ lg.callers[2].allow
    /\ lg.callers[2].found
    /\ lg.callers[2].pc = "done"
    /\ lg.loads = 2
    /\ lg.applies = 2

\* C37: when load_config, apply_env_level_overrides or dictConfig raises
\* inside init_logging, the call ends with that exception, the flag has the
\* value the call found under the lock, and the lock is free again; the lock
\* is held only by a call that is between its guard and its last line, so a
\* call that raised never keeps a later call waiting
C37_RaiseReleasesLock ==
    /\ [](/\ lg.lock # 0 =>
              lg.callers[lg.lock].pc \in {"guard", "load", "env", "apply", "set"}
          /\ lg.lock = 0 =>
              \A d \in DOMAIN lg.callers :
                  lg.callers[d].pc = "acquire" => ENABLED Acquire(d)
          /\ \A c \in DOMAIN lg.callers :
               lg.callers[c].pc = "raised" =>
                   (lg.lock # c /\ lg.callers[c].exc \in {"load", "env", "apply"}))
    /\ [][\A c \in DOMAIN lg.callers :
            Raises(c) =>
                /\ lg'.callers[c].pc = "raised"
                /\ lg'.callers[c].exc = lg.callers[c].pc
                /\ lg'.configured = lg.callers[c].found
                /\ lg'.configured = lg.configured
                /\ lg'.lock = 0]_vars

\* dictConfig raised in the first call with the flag still unset; a second
\* call then took the lock and configured
C37_Witness ==
    /\ Len(lg.callers) = 2
    /\ lg.callers[1].pc = "raised"
    /\ lg.callers[1].exc = "apply"
    /\ ~lg.callers[1].found
    /\ lg.callers[2].pc = "done"
    /\ lg.callers[2].applied = 1
    /\ lg.configured

\* C38: apply_env_level_overrides leaves the configuration as it was when
\* the environment has no LOG_LEVEL_* and no LOG_CONSOLE_LEVEL variable; a
\* non-empty LOG_CONSOLE_LEVEL sets the level of a console handler the
\* configuration has, keeping its other keys, and a configuration without a
\* console handler stays without one; a LOG_LEVEL_<NAME> variable sets the
\* level of the logger entry the configuration has for it and keeps the other
\* keys of the entry, and the entries no variable names stay as they were.
HasLogger(cfg, n) == "loggers" \in DOMAIN cfg /\ n \in DOMAIN cfg["loggers"]

HasConsole(cfg) == "handlers" \in DOMAIN cfg /\ "console" \in DOMAIN cfg["handlers"]

SameButLevel(after, before) ==
    /\ DOMAIN after = DOMAIN before
    /\ \A key \in DOMAIN before \ {"level"} : after[key] = before[key]

C38_EnvOverridesFrame ==
    call.op = "apply_env_level_overrides" =>
        /\ (\A i \in DOMAIN call.env :
                call.env[i].k \notin LogLevelVars \cup {"LOG_CONSOLE_LEVEL"})
              => call.result = call.cfg
        /\ (HasConsole(call.cfg) /\ Getenv(call.env, "LOG_CONSOLE_LEVEL") = " error ")
              => /\ call.result["handlers"]["console"]["level"] = "ERROR"
                 /\ call.result["handlers"]["console"]["class"] = "StreamHandler"
                 /\ SameButLevel(call.result["handlers"]["console"],
                                 call.cfg["handlers"]["console"])
        /\ ~HasConsole(call.cfg) => ~HasConsole(call.result)
        /\ (HasLogger(call.cfg, "myapp") /\ Getenv(call.env, "LOG_LEVEL_MYAPP") = "critical")
              => /\ call.result["loggers"]["myapp"]["level"] = "CRITICAL"
                 /\ call.result["loggers"]["myapp"]["handlers"] = <<"file">>
                 /\ call.result["loggers"]["myapp"]["propagate"] = TRUE
                 /\ call.result["loggers"]["myapp"]["extra"] = "keep_me"
        /\ \A i \in DOMAIN call.env :
              (/\ call.env[i].k \in LogLevelVars \ {"LOG_LEVEL_ROOT"}
               /\ HasLogger(call.cfg, LoggerName(call.env[i].k)))
              => /\ SameButLevel(call.result["loggers"][LoggerName(call.env[i].k)],
                                 call.cfg["loggers"][LoggerName(call.env[i].k)])
                 /\ call.result["loggers"][LoggerName(call.env[i].k)]["level"]
                        \in {"CRITICAL", "DEBUG", "WARNING"}
        /\ "loggers" \in DOMAIN call.cfg =>
              \A n \in DOMAIN call.cfg["loggers"] :
                  (\A i \in DOMAIN call.env :
                      call.env[i].k \in LogLevelVars => LoggerName(call.env[i].k) # n)
                  => call.result["loggers"][n] = call.cfg["loggers"][n]

\* a call with LOG_LEVEL_MYAPP and LOG_CONSOLE_LEVEL set, on a configuration
\* that has the logger myapp and no handlers: the level of myapp is the
\* upper-case value, its other keys are kept, and no console handler exists
C38_Witness ==
    /\ call.op = "apply_env_level_overrides"
    /\ Getenv(call.env, "LOG_LEVEL_MYAPP") = "critical"
    /\ Getenv(call.env, "LOG_CONSOLE_LEVEL") = " error "
    /\ HasLogger(call.cfg, "myapp")
    /\ "handlers" \notin DOMAIN call.cfg
    /\ call.result["loggers"]["myapp"]["level"] = "CRITICAL"
    /\ call.result["loggers"]["myapp"]["extra"] = "keep_me"
    /\ call.result["handlers"] = EmptyDict

====
